---------------------------- MODULE Spec2Model ----------------------------
(***************************************************************************)
(* aozora2fmt: conversion of Aozora Bunko text to plain, md or tex.        *)
(*                                                                         *)
(* A Go string is modelled as the sequence of its Unicode code points      *)
(* (naturals).  The regular expressions of the program work on code        *)
(* points, and for valid UTF-8 the byte-wise substring search of           *)
(* strings.Replace / strings.Split finds exactly the code point            *)
(* sub-sequences, so the program's string operations are those of the      *)
(* sequences below.  Comments give every non-ASCII character as U+XXXX.    *)
(***************************************************************************)
EXTENDS Integers, Sequences, FiniteSets, TLC

\* ------------------------------------------------------------ characters
NL      == 10      \* "\n"
CR      == 13      \* "\r", dropped by bufio.ScanLines
PERCENT == 37      \* "%"
VERB_S  == 115     \* "s"
HYPHEN  == 45      \* "-"
DIGIT0  == 48      \* "0"
DIGIT9  == 57      \* "9"
FWSPACE == 12288   \* U+3000 ideographic space
KOME    == 8251    \* U+203B reference mark
LBRACK  == 65339   \* U+FF3B fullwidth [
RBRACK  == 65341   \* U+FF3D fullwidth ]
SHARP   == 65283   \* U+FF03 fullwidth #
DAI     == 31532   \* U+7B2C
SUI     == 27700   \* U+6C34
JUN     == 28310   \* U+6E96
BAR     == 65372   \* U+FF5C fullwidth |
LRUBY   == 12298   \* U+300A
RRUBY   == 12299   \* U+300B
LQUOTE  == 12300   \* U+300C
RQUOTE  == 12301   \* U+300D
NI      == 12395   \* U+306B
BOU     == 20621   \* U+508D
TEN     == 28857   \* U+70B9
SESAME  == 65093   \* U+FE45 sesame dot
LKIKKO  == 12308   \* U+3014
RKIKKO  == 12309   \* U+3015
HA      == 12399   \* U+306F
OOKII   == 22823   \* U+5927 level word, major
NAKA    == 20013   \* U+4E2D level word, medium
CHIISAI == 23567   \* U+5C0F level word, minor
MI      == 35211   \* U+898B
DASHI   == 20986   \* U+51FA
SHI     == 12375   \* U+3057
KAI     == 25913   \* U+6539
PE      == 12506   \* U+30DA
CHOON   == 12540   \* U+30FC
JI      == 12472   \* U+30B8
HYPHENS == 55      \* length of the delimiter's hyphen run

\* ------------------------------------------------------- package strings
Min(S) == CHOOSE x \in S : \A y \in S : x <= y

Slice(s, i, j) == IF j < i THEN << >> ELSE SubSeq(s, i, j)

\* whether old occurs in s at index i
HasAt(s, old, i) ==
  /\ i >= 1
  /\ i + Len(old) - 1 <= Len(s)
  /\ \A k \in 1..Len(old) : s[i + k - 1] = old[k]

\* strings.Index from position i on: the least index >= i, or 0
IndexFrom(s, old, i) ==
  LET J == { j \in i..(Len(s) - Len(old) + 1) : HasAt(s, old, j) }
  IN  IF J = {} THEN 0 ELSE Min(J)

Contains(s, old) == IndexFrom(s, old, 1) # 0

RECURSIVE ReplaceFrom(_, _, _, _)
ReplaceFrom(s, old, new, i) ==
  LET j == IndexFrom(s, old, i)
  IN  IF j = 0 THEN Slice(s, i, Len(s))
      ELSE Slice(s, i, j - 1) \o new \o ReplaceFrom(s, old, new, j + Len(old))

\* strings.Replace(s, old, new, -1) and strings.ReplaceAll, for a non-empty
\* old: every non-overlapping occurrence, leftmost first
Replace(s, old, new) == ReplaceFrom(s, old, new, 1)

RECURSIVE SplitFrom(_, _, _)
SplitFrom(s, sep, i) ==
  LET j == IndexFrom(s, sep, i)
  IN  IF j = 0 THEN << Slice(s, i, Len(s)) >>
      ELSE << Slice(s, i, j - 1) >> \o SplitFrom(s, sep, j + Len(sep))

\* strings.Split(s, sep) for a non-empty sep
Split(s, sep) == SplitFrom(s, sep, 1)

RECURSIVE Join(_, _)
\* strings.Join(elems, sep)
Join(elems, sep) ==
  IF elems = << >> THEN << >>
  ELSE IF Len(elems) = 1 THEN elems[1]
  ELSE elems[1] \o sep \o Join(Tail(elems), sep)

RECURSIVE Repeat(_, _)
\* strings.Repeat(s, count)
Repeat(s, count) == IF count <= 0 THEN << >> ELSE s \o Repeat(s, count - 1)

\* strings.Trim(s, cutset): leading and trailing code points of cutset removed
Trim(s, cutset) ==
  LET keep == { i \in 1..Len(s) : s[i] \notin cutset }
  IN  IF keep = {} THEN << >>
      ELSE Slice(s, Min(keep), CHOOSE x \in keep : \A y \in keep : y <= x)

\* ----------------------------------------------------------- package fmt
EXTRA_OPEN == <<37, 33, 40, 69, 88, 84, 82, 65, 32, 115, 116, 114, 105, 110, 103, 61>>
                                                        \* "%!(EXTRA string="
EXTRA_SEP  == <<44, 32, 115, 116, 114, 105, 110, 103, 61>>   \* ", string="
EXTRA_END  == <<41>>                                         \* ")"
MISSING_S  == <<37, 33, 115, 40, 77, 73, 83, 83, 73, 78, 71, 41>>
                                                        \* "%!s(MISSING)"

RECURSIVE ExtraArgs(_)
ExtraArgs(args) ==
  IF Len(args) = 1 THEN args[1]
  ELSE args[1] \o EXTRA_SEP \o ExtraArgs(Tail(args))

RECURSIVE SprintfFrom(_, _, _)
SprintfFrom(format, i, args) ==
  IF i > Len(format)
    THEN IF args = << >> THEN << >>
         ELSE EXTRA_OPEN \o ExtraArgs(args) \o EXTRA_END
  ELSE IF format[i] = PERCENT /\ i < Len(format) /\ format[i + 1] = VERB_S
    THEN IF args = << >>
           THEN MISSING_S \o SprintfFrom(format, i + 2, args)
           ELSE args[1] \o SprintfFrom(format, i + 2, Tail(args))
  ELSE << format[i] >> \o SprintfFrom(format, i + 1, args)

\* fmt.Sprintf(format, args...) for string operands and the verb %s, the only
\* verb of the program's templates: operands are consumed in order, a verb
\* without operand prints %!s(MISSING), and operands left over are reported
\* at the end as %!(EXTRA string=a, string=b)
Sprintf(format, args) == SprintfFrom(format, 1, args)

\* ------------------------------------------------------------ the tables
\* accent_map: the pairs <<token, accented character>> of the map literal
AccentTable ==
  { <<<<65, 38>>, 197>>, <<<<65, 39>>, 193>>, <<<<65, 58>>, 196>>, <<<<65, 69, 38>>, 198>>,
    <<<<65, 94>>, 194>>, <<<<65, 95>>, 256>>, <<<<65, 96>>, 192>>, <<<<65, 126>>, 195>>,
    <<<<67, 39>>, 262>>, <<<<67, 44>>, 199>>, <<<<67, 94>>, 264>>, <<<<68, 47>>, 272>>,
    <<<<69, 39>>, 201>>, <<<<69, 58>>, 203>>, <<<<69, 94>>, 202>>, <<<<69, 95>>, 274>>,
    <<<<69, 96>>, 200>>, <<<<69, 126>>, 7868>>, <<<<71, 94>>, 284>>, <<<<72, 94>>, 292>>,
    <<<<73, 39>>, 205>>, <<<<73, 58>>, 207>>, <<<<73, 94>>, 206>>, <<<<73, 95>>, 298>>,
    <<<<73, 96>>, 204>>, <<<<73, 126>>, 296>>, <<<<74, 94>>, 308>>, <<<<76, 39>>, 313>>,
    <<<<76, 47>>, 321>>, <<<<77, 39>>, 7742>>, <<<<78, 39>>, 323>>, <<<<78, 96>>, 504>>,
    <<<<78, 126>>, 209>>, <<<<79, 39>>, 211>>, <<<<79, 47>>, 216>>, <<<<79, 58>>, 214>>,
    <<<<79, 69, 38>>, 338>>, <<<<79, 94>>, 212>>, <<<<79, 95>>, 332>>, <<<<79, 96>>, 210>>,
    <<<<79, 126>>, 213>>, <<<<82, 39>>, 340>>, <<<<83, 39>>, 346>>, <<<<83, 44>>, 350>>,
    <<<<83, 94>>, 348>>, <<<<84, 44>>, 354>>, <<<<85, 38>>, 366>>, <<<<85, 39>>, 218>>,
    <<<<85, 58>>, 220>>, <<<<85, 94>>, 219>>, <<<<85, 95>>, 362>>, <<<<85, 96>>, 217>>,
    <<<<85, 126>>, 360>>, <<<<89, 39>>, 221>>, <<<<90, 39>>, 377>>, <<<<97, 38>>, 229>>,
    <<<<97, 39>>, 225>>, <<<<97, 58>>, 228>>, <<<<97, 94>>, 226>>, <<<<97, 95>>, 257>>,
    <<<<97, 96>>, 224>>, <<<<97, 101, 38>>, 230>>, <<<<97, 126>>, 227>>, <<<<99, 39>>, 263>>,
    <<<<99, 44>>, 231>>, <<<<99, 94>>, 265>>, <<<<100, 47>>, 273>>, <<<<101, 39>>, 233>>,
    <<<<101, 58>>, 235>>, <<<<101, 94>>, 234>>, <<<<101, 95>>, 275>>, <<<<101, 96>>, 232>>,
    <<<<101, 126>>, 7869>>, <<<<103, 94>>, 285>>, <<<<104, 47>>, 295>>, <<<<104, 94>>, 293>>,
    <<<<105, 39>>, 237>>, <<<<105, 47>>, 616>>, <<<<105, 58>>, 239>>, <<<<105, 94>>, 238>>,
    <<<<105, 95>>, 299>>, <<<<105, 96>>, 236>>, <<<<105, 126>>, 297>>, <<<<106, 94>>, 309>>,
    <<<<108, 39>>, 314>>, <<<<108, 47>>, 322>>, <<<<109, 39>>, 7743>>, <<<<110, 39>>, 324>>,
    <<<<110, 96>>, 505>>, <<<<110, 126>>, 241>>, <<<<111, 39>>, 243>>, <<<<111, 47>>, 248>>,
    <<<<111, 58>>, 246>>, <<<<111, 94>>, 244>>, <<<<111, 95>>, 333>>, <<<<111, 96>>, 242>>,
    <<<<111, 101, 38>>, 339>>, <<<<111, 126>>, 245>>, <<<<114, 39>>, 341>>, <<<<115, 38>>, 223>>,
    <<<<115, 39>>, 347>>, <<<<115, 44>>, 351>>, <<<<115, 94>>, 349>>, <<<<116, 44>>, 355>>,
    <<<<117, 38>>, 367>>, <<<<117, 39>>, 250>>, <<<<117, 58>>, 252>>, <<<<117, 94>>, 251>>,
    <<<<117, 95>>, 363>>, <<<<117, 96>>, 249>>, <<<<117, 126>>, 361>>, <<<<121, 39>>, 253>>,
    <<<<121, 58>>, 255>>, <<<<122, 39>>, 378>> }

AccentKeys == { p[1] : p \in AccentTable }

\* m[key] of accent_map()
AccentMap(key) == (CHOOSE p \in AccentTable : p[1] = key)[2]

\* jis_map: the pairs <<code, character>> of the map literal
JisTable ==
  { <<311476, 21255>>, <<311524, 22129>>, <<311589, 23207>>, <<318428, 24408>>,
    <<318431, 24445>>, <<318445, 24627>>, <<318454, 24797>>, <<318455, 24824>>,
    <<318459, 24887>>, <<318466, 25122>>, <<318477, 25368>>, <<318615, 27227>>,
    <<318662, 27883>>, <<318740, 28855>>, <<318764, 29124>>, <<318771, 29325>>,
    <<318822, 29830>>, <<318881, 30518>>, <<318885, 30556>>, <<319155, 34556>>,
    <<319239, 36464>>, <<319278, 37154>>, <<319413, 39427>>, <<319484, 40761>>,
    <<421283, 25109>>, <<428874, 35651>>, <<429267, 39228>>, <<429268, 39232>>,
    <<429271, 39245>>, <<429337, 39795>> }

JisKeys == { p[1] : p \in JisTable }

\* m[num] of jis_map()
JisMap(num) == (CHOOSE p \in JisTable : p[1] = num)[2]

\* ---------------------------------------------------------------- OutFmt
EmptyOutFmt ==
  [ruby |-> << >>, hdr |-> << >>, shdr |-> << >>, sshdr |-> << >>, pb |-> << >>]

\* "\ruby{%s}{%s}", "\chapter{%s}", "\section*{%s}", "\subsection*{%s}",
\* "\newpage"
TexOutFmt ==
  [ruby  |-> <<92, 114, 117, 98, 121, 123, 37, 115, 125, 123, 37, 115, 125>>,
   hdr   |-> <<92, 99, 104, 97, 112, 116, 101, 114, 123, 37, 115, 125>>,
   shdr  |-> <<92, 115, 101, 99, 116, 105, 111, 110, 42, 123, 37, 115, 125>>,
   sshdr |-> <<92, 115, 117, 98, 115, 101, 99, 116, 105, 111, 110, 42, 123,
               37, 115, 125>>,
   pb    |-> <<92, 110, 101, 119, 112, 97, 103, 101>>]

\* "<ruby>%s<rp>U+300A</rp><rt>%s</rt><rp>U+300B</rp></ruby>", "# %s",
\* "## %s", "### %s", "<div style='break-after:always'></div>"
MdOutFmt ==
  [ruby  |-> <<60, 114, 117, 98, 121, 62, 37, 115, 60, 114, 112, 62, 12298,
               60, 47, 114, 112, 62, 60, 114, 116, 62, 37, 115, 60, 47, 114,
               116, 62, 60, 114, 112, 62, 12299, 60, 47, 114, 112, 62, 60, 47,
               114, 117, 98, 121, 62>>,
   hdr   |-> <<35, 32, 37, 115>>,
   shdr  |-> <<35, 35, 32, 37, 115>>,
   sshdr |-> <<35, 35, 35, 32, 37, 115>>,
   pb    |-> <<60, 100, 105, 118, 32, 115, 116, 121, 108, 101, 61, 39, 98,
               114, 101, 97, 107, 45, 97, 102, 116, 101, 114, 58, 97, 108, 119,
               97, 121, 115, 39, 62, 60, 47, 100, 105, 118, 62>>]

\* "[%s:%s]", "%s", "%s", "%s", ""
PlainOutFmt ==
  [ruby  |-> <<91, 37, 115, 58, 37, 115, 93>>,
   hdr   |-> <<37, 115>>,
   shdr  |-> <<37, 115>>,
   sshdr |-> <<37, 115>>,
   pb    |-> << >>]

\* new(OutFmt) is all empty strings; the switch has no default case
get_outfmt(fmt) ==
  CASE fmt = "tex"   -> TexOutFmt
    [] fmt = "md"    -> MdOutFmt
    [] fmt = "plain" -> PlainOutFmt
    [] OTHER         -> EmptyOutFmt

\* ------------------------------------------------------ package regexp
\* Every expression of the program is a chain of literals and of negated
\* one-character classes repeated greedily, so at a given start there is at
\* most one way to match and leftmost-first matching is decided by the start
\* alone.  A match is [b, e, g1, g2]: first and last index, the two groups;
\* b = 0 is no match.
NoMatch == [b |-> 0, e |-> 0, g1 |-> << >>, g2 |-> << >>]

\* the least index j >= i with s[j] in C, or 0
FirstIn(s, i, C) ==
  LET J == { j \in i..Len(s) : s[j] \in C }
  IN  IF J = {} THEN 0 ELSE Min(J)

IsDigit(c) == DIGIT0 <= c /\ c <= DIGIT9

\* the character class of replace_ruby: CJK Extension A, CJK Unified,
\* CJK Compatibility, Extension B-F and Supplement, and U+3006 U+303B
\* U+3007 U+3005 U+30F6
IsKanji(c) ==
  \/ 13312 <= c /\ c <= 19903         \* \x{3400}-\x{4DBF}
  \/ 19968 <= c /\ c <= 40959         \* \x{4E00}-\x{9FFF}
  \/ 63744 <= c /\ c <= 64255         \* \x{F900}-\x{FAFF}
  \/ 131072 <= c /\ c <= 195103       \* \x{20000}-\x{2FA1F}
  \/ c \in {12294, 12347, 12295, 12293, 12534}

\* U+203B U+FF3B U+FF03 ([^ U+FF3D ]+) U+FF3D
JisAt(s, i) ==
  IF ~HasAt(s, <<KOME, LBRACK, SHARP>>, i) THEN NoMatch
  ELSE LET r == FirstIn(s, i + 3, {RBRACK})
       IN  IF r <= i + 3 THEN NoMatch
           ELSE [b |-> i, e |-> r, g1 |-> Slice(s, i + 3, r - 1), g2 |-> << >>]

\* U+7B2C (\d) U+6C34 U+6E96 (\d)-(\d\d)-(\d\d); g1 holds the four groups
\* concatenated, as line 69 concatenates them
LocatorAt(s, i) ==
  IF /\ i >= 1
     /\ i + 10 <= Len(s)
     /\ s[i] = DAI /\ IsDigit(s[i + 1])
     /\ s[i + 2] = SUI /\ s[i + 3] = JUN /\ IsDigit(s[i + 4])
     /\ s[i + 5] = HYPHEN /\ IsDigit(s[i + 6]) /\ IsDigit(s[i + 7])
     /\ s[i + 8] = HYPHEN /\ IsDigit(s[i + 9]) /\ IsDigit(s[i + 10])
  THEN [b |-> i, e |-> i + 10,
        g1 |-> <<s[i + 1], s[i + 4], s[i + 6], s[i + 7], s[i + 9], s[i + 10]>>,
        g2 |-> << >>]
  ELSE NoMatch

\* [ U+FF5C ]? ([kanji]+) U+300A ([^ U+300B ]+) U+300B
RubyAt(s, i) ==
  LET k == IF i <= Len(s) /\ s[i] = BAR THEN i + 1 ELSE i
  IN  IF ~(k <= Len(s) /\ IsKanji(s[k])) THEN NoMatch
      ELSE LET J == { j \in k..Len(s) : ~IsKanji(s[j]) }
               l == IF J = {} THEN 0 ELSE Min(J)
           IN  IF l = 0 \/ s[l] # LRUBY THEN NoMatch
               ELSE LET r == FirstIn(s, l + 1, {RRUBY})
                    IN  IF r <= l + 1 THEN NoMatch
                        ELSE [b |-> i, e |-> r, g1 |-> Slice(s, k, l - 1),
                              g2 |-> Slice(s, l + 1, r - 1)]

\* U+FF3B U+FF03 U+300C ([^ U+300D ]+) U+300D U+306B U+508D U+70B9 U+FF3D
BoutenAt(s, i) ==
  IF ~HasAt(s, <<LBRACK, SHARP, LQUOTE>>, i) THEN NoMatch
  ELSE LET q == FirstIn(s, i + 3, {RQUOTE})
       IN  IF q <= i + 3 \/ ~HasAt(s, <<RQUOTE, NI, BOU, TEN, RBRACK>>, q)
             THEN NoMatch
             ELSE [b |-> i, e |-> q + 4, g1 |-> Slice(s, i + 3, q - 1),
                   g2 |-> << >>]

\* U+3014 ([^ U+3015 ]+) U+3015
AccentAt(s, i) ==
  IF ~(i <= Len(s) /\ s[i] = LKIKKO) THEN NoMatch
  ELSE LET r == FirstIn(s, i + 1, {RKIKKO})
       IN  IF r <= i + 1 THEN NoMatch
           ELSE [b |-> i, e |-> r, g1 |-> Slice(s, i + 1, r - 1), g2 |-> << >>]

\* \n\n U+FF3B [^ U+FF3B ]+ U+FF3B U+FF03 U+300C ([^ U+300D ]+) U+300D U+306F
\* ([ U+5927 U+4E2D U+5C0F ]) U+898B U+51FA U+3057 U+FF3D \n\n\n
HeadingAt(s, i) ==
  IF ~HasAt(s, <<NL, NL, LBRACK>>, i) THEN NoMatch
  ELSE LET a == FirstIn(s, i + 3, {LBRACK})
       IN  IF a <= i + 3 \/ ~HasAt(s, <<LBRACK, SHARP, LQUOTE>>, a) THEN NoMatch
           ELSE LET q == FirstIn(s, a + 3, {RQUOTE})
                IN  IF \/ q <= a + 3
                       \/ q + 9 > Len(s)
                       \/ s[q + 1] # HA
                       \/ s[q + 2] \notin {OOKII, NAKA, CHIISAI}
                       \/ ~HasAt(s, <<MI, DASHI, SHI, RBRACK, NL, NL, NL>>, q + 3)
                      THEN NoMatch
                      ELSE [b |-> i, e |-> q + 9, g1 |-> Slice(s, a + 3, q - 1),
                            g2 |-> << s[q + 2] >>]

\* \n\n\n ([^\n]+) \n\n\n
BlankLineAt(s, i) ==
  IF ~HasAt(s, <<NL, NL, NL>>, i) THEN NoMatch
  ELSE LET n == FirstIn(s, i + 3, {NL})
       IN  IF n <= i + 3 \/ ~HasAt(s, <<NL, NL, NL>>, n) THEN NoMatch
           ELSE [b |-> i, e |-> n + 2, g1 |-> Slice(s, i + 3, n - 1),
                 g2 |-> << >>]

MatchAt(exp, s, i) ==
  CASE exp = "jis"     -> JisAt(s, i)
    [] exp = "locator" -> LocatorAt(s, i)
    [] exp = "ruby"    -> RubyAt(s, i)
    [] exp = "bouten"  -> BoutenAt(s, i)
    [] exp = "accent"  -> AccentAt(s, i)
    [] exp = "heading" -> HeadingAt(s, i)
    [] exp = "blank"   -> BlankLineAt(s, i)

\* the leftmost match starting at pos or later
FindFrom(exp, s, pos) ==
  LET I == { i \in pos..Len(s) : MatchAt(exp, s, i).b # 0 }
  IN  IF I = {} THEN NoMatch ELSE MatchAt(exp, s, Min(I))

\* matches[0], matches[1], matches[2] of a match
Submatch(s, m) == (0 :> Slice(s, m.b, m.e)) @@ (1 :> m.g1) @@ (2 :> m.g2)

RECURSIVE FindAllFrom(_, _, _)
FindAllFrom(exp, s, pos) ==
  LET m == FindFrom(exp, s, pos)
  IN  IF m.b = 0 THEN << >>
      ELSE << Submatch(s, m) >> \o FindAllFrom(exp, s, m.e + 1)

\* exp.FindAllStringSubmatch(s, -1): the successive non-overlapping matches
\* (none of the expressions matches the empty string)
FindAllStringSubmatch(exp, s) == FindAllFrom(exp, s, 1)

\* exp.FindStringSubmatch(s): the leftmost match
FindStringSubmatch(exp, s) == FindFrom(exp, s, 1)

\* --------------------------------------------------------- package bufio
\* dropCR: a trailing "\r" removed
DropCR(tok) ==
  IF tok # << >> /\ tok[Len(tok)] = CR THEN Slice(tok, 1, Len(tok) - 1) ELSE tok

\* bufio.MaxScanTokenSize, the size the Scanner's buffer grows to
MaxScanTokenSize == 65536

\* the number of bytes of the UTF-8 encoding of s
Utf8Len(s) ==
  Len(s) + Cardinality({ i \in 1..Len(s) : s[i] >= 128 })
         + Cardinality({ i \in 1..Len(s) : s[i] >= 2048 })
         + Cardinality({ i \in 1..Len(s) : s[i] >= 65536 })

RECURSIVE ScanFrom(_, _)
\* the tokens from position pos on.  A line is a token when it fits the
\* buffer together with its "\n" (or alone, before the end of the file is
\* seen); at a line of MaxScanTokenSize bytes or more Scan returns false
\* with ErrTooLong, which parse does not look at, and the loop ends there.
ScanFrom(data, pos) ==
  IF pos > Len(data) THEN << >>
  ELSE LET N   == { i \in pos..Len(data) : data[i] = NL }
           end == IF N = {} THEN Len(data) ELSE Min(N) - 1
           tok == Slice(data, pos, end)
       IN  IF Utf8Len(tok) >= MaxScanTokenSize THEN << >>
           ELSE << DropCR(tok) >> \o ScanFrom(data, end + 2)

\* the tokens bufio.Scanner yields with ScanLines: the data split at "\n",
\* without a final empty token, each without its trailing "\r", up to the
\* first line that is too long for the buffer
ScanLines(data) == ScanFrom(data, 1)

\* ------------------------------------------------------ package strconv
RECURSIVE Atoi(_)
\* strconv.Atoi of a string of decimal digits
Atoi(digits) ==
  IF digits = << >> THEN 0
  ELSE 10 * Atoi(Slice(digits, 1, Len(digits) - 1))
         + (digits[Len(digits)] - DIGIT0)

\* ---------------------------------------------------------- replace_jis
RECURSIVE JisLoop(_, _, _, _)
\* the loop of replace_jis from its k-th match on: the sub-pattern is
\* searched in str, the line as rewritten so far, not in the match
JisLoop(str, all, k, logged) ==
  IF k > Len(all) THEN [str |-> str, log |-> logged]
  ELSE LET matches == all[k]
           nums    == FindStringSubmatch("locator", str)
       IN  IF nums.b = 0 THEN JisLoop(str, all, k + 1, logged)
           ELSE LET num == Atoi(nums.g1)
                IN  IF num \notin JisKeys
                      THEN JisLoop(str, all, k + 1,
                             Append(logged, [msg  |-> "jis code not implemented",
                                             num  |-> num,
                                             text |-> matches[0]]))
                      ELSE JisLoop(Replace(str, matches[0], << JisMap(num) >>),
                                   all, k + 1, logged)

\* replace_jis(str): the rewritten line and the lines it logs
replace_jis(str) ==
  JisLoop(str, FindAllStringSubmatch("jis", str), 1, << >>)

\* --------------------------------------------------------- replace_ruby
RECURSIVE RubyLoop(_, _, _, _)
RubyLoop(str, all, k, of) ==
  IF k > Len(all) THEN str
  ELSE LET matches     == all[k]
           replacement == Sprintf(of.ruby, << matches[1], matches[2] >>)
       IN  RubyLoop(Replace(str, matches[0], replacement), all, k + 1, of)

RECURSIVE RubyLoopWholeMatch(_, _, _, _)
RubyLoopWholeMatch(str, all, k, of) ==
  IF k > Len(all) THEN str
  ELSE LET matches     == all[k]
           replacement == Sprintf(of.ruby, << matches[1], matches[0] >>)
       IN  RubyLoopWholeMatch(Replace(str, matches[0], replacement), all, k + 1, of)

\* the ruby loop filling the template with matches[0], the whole match,
\* where the reading matches[2] belongs
replace_ruby_ruby_whole_match(str, of) ==
  RubyLoopWholeMatch(str, FindAllStringSubmatch("ruby", str), 1, of)

\* lines 90-94: the ruby matches of the line, each replaced wherever its
\* text occurs
replace_ruby_ruby(str, of) ==
  RubyLoop(str, FindAllStringSubmatch("ruby", str), 1, of)

RECURSIVE BoutenLoop(_, _, _, _)
BoutenLoop(str, all, k, of) ==
  IF k > Len(all) THEN str
  ELSE LET matches     == all[k]
           bouten      == Repeat(<<SESAME>>, Len(matches[1]))
           replacement == Sprintf(of.ruby, << matches[1], bouten >>)
       IN  BoutenLoop(Replace(str, matches[1] \o matches[0], replacement),
                      all, k + 1, of)

\* lines 96-101: the emphasis annotations of the line after the ruby loop
replace_ruby_bouten(str, of) ==
  BoutenLoop(str, FindAllStringSubmatch("bouten", str), 1, of)

replace_ruby(str, of) == replace_ruby_bouten(replace_ruby_ruby(str, of), of)

\* ------------------------------------------------------ replace_accents
\* the keys of the table that occur in str
KeysIn(str) == { key \in AccentKeys : Contains(str, key) }

\* the orders in which a range over the map can visit the keys of K
Orders(K) ==
  { ord \in [1..Cardinality(K) -> K] :
      \A i, j \in 1..Cardinality(K) : i # j => ord[i] # ord[j] }

RECURSIVE ApplyKeys(_, _)
ApplyKeys(str, ord) ==
  IF ord = << >> THEN str
  ELSE ApplyKeys(Replace(str, ord[1], << AccentMap(ord[1]) >>), Tail(ord))

\* lines 112-115: `for key := range m` visits the keys in an order the Go
\* runtime chooses anew each time, so the loop yields a set of possible
\* lines.  A key without occurrence leaves the line as it is, and replacing
\* a token by its (non-ASCII) character creates no occurrence of an (ASCII)
\* key, so the result is decided by the order of the keys occurring in str.
RangeAccentMap(str) ==
  { ApplyKeys(str, ord) : ord \in Orders(KeysIn(str)) }

RECURSIVE AccentLoop(_, _, _)
AccentLoop(strs, all, k) ==
  IF k > Len(all) THEN strs
  ELSE LET matches == all[k]
       IN  AccentLoop(
             UNION { RangeAccentMap(Replace(str, matches[0], matches[1])) :
                       str \in strs },
             all, k + 1)

\* replace_accents with the range over the map outside the loop over the
\* bracketed segments: the tokens are decoded on every line
replace_accents_every_line(str) ==
  LET all == FindAllStringSubmatch("accent", str)
  IN  UNION { RangeAccentMap(s) : s \in AccentLoop({str}, all, 1) }

\* replace_accents(str): the set of lines the call can return
replace_accents(str) ==
  AccentLoop({str}, FindAllStringSubmatch("accent", str), 1)

\* --------------------------------------------------------- replace_hdrs
RECURSIVE FallbackLoop(_, _, _, _)
FallbackLoop(str, all, k, of) ==
  IF k > Len(all) THEN str
  ELSE LET matches     == all[k]
           replacement == <<NL>> \o Sprintf(of.hdr, << matches[1] >>) \o <<NL>>
       IN  FallbackLoop(Replace(str, matches[0], replacement), all, k + 1, of)

RECURSIVE HeadingLoop(_, _, _, _, _)
HeadingLoop(str, slices, k, of, logged) ==
  IF k > Len(slices) THEN [str |-> str, log |-> logged]
  ELSE LET matches == slices[k]
           known   == matches[2] \in {<<OOKII>>, <<NAKA>>, <<CHIISAI>>}
           replacement ==
             CASE matches[2] = <<OOKII>>   -> Sprintf(of.hdr, << matches[1] >>)
               [] matches[2] = <<NAKA>>    -> Sprintf(of.shdr, << matches[1] >>)
               [] matches[2] = <<CHIISAI>> -> Sprintf(of.sshdr, << matches[1] >>)
               [] OTHER                    -> matches[1]
       IN  HeadingLoop(Replace(str, matches[0], replacement \o <<NL>>),
                       slices, k + 1, of,
                       IF known THEN logged
                       ELSE Append(logged, [msg |-> "bad hdr", num |-> 0,
                                            text |-> matches[0]]))

\* replace_hdrs(str, of): the rewritten document and the lines it logs
replace_hdrs(str, of) ==
  LET slices == FindAllStringSubmatch("heading", str)
  IN  IF slices = << >>
        THEN [str |-> FallbackLoop(str, FindAllStringSubmatch("blank", str), 1, of),
              log |-> << >>]
        ELSE HeadingLoop(str, slices, 1, of, << >>)

\* U+FF3B U+FF03 U+6539 U+30DA U+30FC U+30B8 U+FF3D, the page break marker
PageBreak == <<LBRACK, SHARP, KAI, PE, CHOON, JI, RBRACK>>

\* ------------------------------------------------------------ trim_info
Delim == <<NL>> \o Repeat(<<HYPHEN>>, HYPHENS) \o <<NL>>

\* trim_info keeping slices[0] and slices[1]
trim_info_second_segment(str) ==
  LET slices == Split(str, Delim)
  IN  IF Len(slices) < 3 THEN [panic |-> TRUE, str |-> << >>]
      ELSE [panic |-> FALSE, str |-> Join(<< slices[1], slices[2] >>, << >>)]

\* trim_info returning the document as it is when it has fewer than three
\* slices
trim_info_guarded(str) ==
  LET slices == Split(str, Delim)
  IN  IF Len(slices) < 3 THEN [panic |-> FALSE, str |-> str]
      ELSE [panic |-> FALSE, str |-> Join(<< slices[1], slices[3] >>, << >>)]

\* trim_info(str): slices[0] and slices[2] joined; indexing slices[2] of
\* fewer than three slices is a run-time panic
trim_info(str) ==
  LET slices == Split(str, Delim)
  IN  IF Len(slices) < 3 THEN [panic |-> TRUE, str |-> << >>]
      ELSE [panic |-> FALSE, str |-> Join(<< slices[1], slices[3] >>, << >>)]

\* ===================================================== the program's state
VARIABLES
  cmd,      \* the command line: [flags, nargs, d, f], how flag.Parse ends
            \* (ok, help, error), the positional arguments, -d and -f
  fs,       \* the file named by the argument: [openable, data]
  pc,       \* where the run is: main, open, scan, join, trim, print, exit
  of,       \* the OutFmt main selected
  opens,    \* the calls of os.Open so far
  pending,  \* the lines the Scanner has still to yield
  line,     \* the successive values of `line` in the last loop pass of parse
  lines,    \* parse's `lines`
  stage,    \* the successive values of `out` in parse, lines 177-179
  out,      \* parse's `out`
  stdout,   \* what the run wrote to standard output
  stderr,   \* what the run wrote to standard error, one record per line
  status,   \* the exit status, -1 while the process runs
  rb        \* replace_ruby applied to a line and again to its result

vars == << cmd, fs, pc, of, opens, pending, line, lines, stage, out, stdout,
           stderr, status, rb >>

NoLine  == [text |-> << >>, trimmed |-> << >>, jis |-> << >>, ruby |-> << >>,
            accents |-> << >>]
NoStage == [joined |-> << >>, hdrs |-> << >>, pb |-> << >>]
NoRuby  == [fmt |-> "", str |-> << >>, passes |-> << >>]

LogLine(msg) == [msg |-> msg, num |-> 0, text |-> << >>]

\* the variables of a process that has not run yet, for a command line and
\* a file
Fresh(r) ==
  /\ cmd = [flags |-> r.flags, nargs |-> r.nargs, d |-> r.d, f |-> r.f]
  /\ fs = [openable |-> r.openable, data |-> r.data]
  /\ of = EmptyOutFmt
  /\ opens = 0
  /\ pending = << >>
  /\ line = NoLine
  /\ lines = << >>
  /\ stage = NoStage
  /\ out = << >>
  /\ stdout = << >>
  /\ stderr = << >>
  /\ status = -1

\* the state a process starts in
Start(r) == Fresh(r) /\ pc = "main" /\ rb = NoRuby

\* ------------------------------------------------------------------ main
\* the exit status of flag.Parse on -h or -help: 0 since Go 1.15, 2 before
HelpStatus == { 0, 2 }

\* line 195: flag.Parse meets -h or -help; flag.CommandLine exits on error:
\* usage is called and the process ends
Main_FlagHelp ==
  /\ pc = "main"
  /\ cmd.flags = "help"
  /\ stderr' = Append(stderr, LogLine("usage"))
  /\ \E s \in HelpStatus : status' = s
  /\ pc' = "exit"
  /\ UNCHANGED << cmd, fs, of, opens, pending, line, lines, stage, out,
                  stdout, rb >>

\* line 195: flag.Parse meets an undefined flag, a flag without its value or
\* a value that does not parse: the error and the usage are printed and the
\* process exits with status 2
Main_FlagError ==
  /\ pc = "main"
  /\ cmd.flags = "error"
  /\ stderr' = stderr \o << LogLine("flag"), LogLine("usage") >>
  /\ status' = 2
  /\ pc' = "exit"
  /\ UNCHANGED << cmd, fs, of, opens, pending, line, lines, stage, out,
                  stdout, rb >>

\* lines 197-200: not exactly one positional argument
Main_Usage ==
  /\ pc = "main"
  /\ cmd.flags = "ok"
  /\ cmd.nargs # 1
  /\ stderr' = Append(stderr, LogLine("usage"))
  /\ status' = 1
  /\ pc' = "exit"
  /\ UNCHANGED << cmd, fs, of, opens, pending, line, lines, stage, out,
                  stdout, rb >>

\* lines 202-204: the format descriptor is selected, parse is entered
Main_Format ==
  /\ pc = "main"
  /\ cmd.flags = "ok"
  /\ cmd.nargs = 1
  /\ of' = get_outfmt(cmd.f)
  /\ pc' = "open"
  /\ UNCHANGED << cmd, fs, opens, pending, line, lines, stage, out, stdout,
                  stderr, status, rb >>

\* lines 161-165: os.Open fails, log.Fatal prints the error and exits 1
Parse_OpenFail ==
  /\ pc = "open"
  /\ ~fs.openable
  /\ opens' = opens + 1
  /\ stderr' = Append(stderr, LogLine("open"))
  /\ status' = 1
  /\ pc' = "exit"
  /\ UNCHANGED << cmd, fs, of, pending, line, lines, stage, out, stdout, rb >>

\* lines 161-168: the file is open and a Scanner reads it
Parse_Open ==
  /\ pc = "open"
  /\ fs.openable
  /\ opens' = opens + 1
  /\ pending' = ScanLines(fs.data)
  /\ pc' = "scan"
  /\ UNCHANGED << cmd, fs, of, line, lines, stage, out, stdout, stderr,
                  status, rb >>

\* lines 169-175: one pass of the loop over the lines
Parse_Line ==
  /\ pc = "scan"
  /\ pending # << >>
  /\ LET text    == Head(pending)
         trimmed == Trim(text, {FWSPACE})
         jis     == replace_jis(trimmed)
         ruby    == replace_ruby(jis.str, of)
     IN  \E accents \in replace_accents(ruby) :
           /\ line' = [text |-> text, trimmed |-> trimmed, jis |-> jis.str,
                       ruby |-> ruby, accents |-> accents]
           /\ lines' = Append(lines, accents)
           /\ stderr' = stderr \o jis.log
  /\ pending' = Tail(pending)
  /\ UNCHANGED << cmd, fs, pc, of, opens, stage, out, stdout, status, rb >>

\* lines 177-179: the lines joined, the headers and the page breaks rewritten
Parse_Join ==
  /\ pc = "scan"
  /\ pending = << >>
  /\ LET joined == Join(lines, <<NL, NL>>)
         hdrs   == replace_hdrs(joined, of)
         pb     == Replace(hdrs.str, PageBreak, of.pb)
     IN  /\ stage' = [joined |-> joined, hdrs |-> hdrs.str, pb |-> pb]
         /\ out' = pb
         /\ stderr' = stderr \o hdrs.log
  /\ pc' = "trim"
  /\ UNCHANGED << cmd, fs, of, opens, pending, line, lines, stdout, status, rb >>

\* line 181, debug mode: the document is returned as it is
Parse_Debug ==
  /\ pc = "trim"
  /\ cmd.d
  /\ pc' = "print"
  /\ UNCHANGED << cmd, fs, of, opens, pending, line, lines, stage, out,
                  stdout, stderr, status, rb >>

\* lines 181-183: the metadata block is cut out
Parse_Trim ==
  /\ pc = "trim"
  /\ ~cmd.d
  /\ ~trim_info(out).panic
  /\ out' = trim_info(out).str
  /\ pc' = "print"
  /\ UNCHANGED << cmd, fs, of, opens, pending, line, lines, stage, stdout,
                  stderr, status, rb >>

\* lines 155-157: slices[2] is out of range, the run-time panics and the
\* process exits with status 2
Parse_TrimPanic ==
  /\ pc = "trim"
  /\ ~cmd.d
  /\ trim_info(out).panic
  /\ stderr' = Append(stderr, LogLine("panic"))
  /\ status' = 2
  /\ pc' = "exit"
  /\ UNCHANGED << cmd, fs, of, opens, pending, line, lines, stage, out,
                  stdout, rb >>

\* line 207 and the return from main
Main_Print ==
  /\ pc = "print"
  /\ stdout' = out \o <<NL>>
  /\ status' = 0
  /\ pc' = "exit"
  /\ UNCHANGED << cmd, fs, of, opens, pending, line, lines, stage, out,
                  stderr, rb >>

Next ==
  \/ Main_FlagHelp
  \/ Main_FlagError
  \/ Main_Usage
  \/ Main_Format
  \/ Parse_OpenFail
  \/ Parse_Open
  \/ Parse_Line
  \/ Parse_Join
  \/ Parse_Debug
  \/ Parse_Trim
  \/ Parse_TrimPanic
  \/ Main_Print

\* ------------------------------------------- replace_ruby as a function
RubyApplications == 2

\* replace_ruby applied to the line, then to what it returned
Ruby_Pass ==
  /\ pc = "ruby"
  /\ Len(rb.passes) < RubyApplications
  /\ LET str  == IF rb.passes = << >> THEN rb.str
                 ELSE rb.passes[Len(rb.passes)].out
         fmt  == get_outfmt(rb.fmt)
     IN  rb' = [rb EXCEPT !.passes =
                  Append(@, [ruby |-> replace_ruby_ruby(str, fmt),
                             out  |-> replace_ruby(str, fmt)])]
  /\ UNCHANGED << cmd, fs, pc, of, opens, pending, line, lines, stage, out,
                  stdout, stderr, status >>

RubyNext == Ruby_Pass

\* ============================================================ the inputs
\* Input text uses U+3042 and U+3044 (kana), U+6F22 and U+5B57 (kanji),
\* U+304B (kana of a reading) and ASCII letters.
KanaA  == << 12354 >>
KanaI  == << 12356 >>
KanaKa == << 12363 >>
Kan    == << 28450 >>
Ji     == << 23383 >>

RECURSIVE Concats(_, _)
\* the concatenations of at most n pieces of P
Concats(P, n) ==
  IF n = 0 THEN { << >> }
  ELSE LET shorter == Concats(P, n - 1)
       IN  shorter \cup { p \o s : p \in P, s \in shorter }

RECURSIVE Files(_, _)
\* the sequences of at most n lines of L
Files(L, n) ==
  IF n = 0 THEN { << >> }
  ELSE LET shorter == Files(L, n - 1)
       IN  shorter \cup { << l >> \o f : l \in L, f \in shorter }

\* the content of a text file with the lines ls, each ended by "\n"
FileOf(ls) == IF ls = << >> THEN << >> ELSE Join(ls, <<NL>>) \o <<NL>>

\* a run whose flags parse: the positional arguments, -d, -f, the file
Run(nargs, d, f, openable, data) ==
  [flags |-> "ok", nargs |-> nargs, d |-> d, f |-> f, openable |-> openable,
   data |-> data]

\* a run that flag.Parse ends ("help" or "error"), with the positional
\* arguments of its command line and the -d seen before the parse stopped
FlagRun(flags, nargs, d, openable) ==
  [flags |-> flags, nargs |-> nargs, d |-> d, f |-> "plain",
   openable |-> openable, data |-> << >>]

\* a file of three lines, the second of MaxScanTokenSize bytes
LongLineFile ==
  [i \in 1..(MaxScanTokenSize + 5) |->
     CASE i = 1 -> 12354
       [] i \in {2, MaxScanTokenSize + 3, MaxScanTokenSize + 5} -> NL
       [] i = MaxScanTokenSize + 4 -> 98
       [] OTHER -> 97]

HyphenLine == Repeat(<<HYPHEN>>, HYPHENS)

\* runs every specification starts from: the flag errors, the usage errors,
\* a file that cannot be opened, a file with a metadata block, a file
\* without
CommonRuns ==
  { FlagRun(fl, n, d, o) :
      fl \in {"help", "error"}, n \in 0..2, d \in BOOLEAN, o \in BOOLEAN }
  \cup
  { Run(0, FALSE, "plain", TRUE, << >>),
    Run(2, FALSE, "plain", TRUE, << >>),
    Run(1, FALSE, "plain", FALSE, << >>),
    Run(1, FALSE, "plain", TRUE, FileOf(<<KanaA>>)) }
  \cup { Run(1, d, "plain", TRUE,
             FileOf(<<KanaA, HyphenLine, KanaI, HyphenLine, KanaA>>)) :
           d \in BOOLEAN }

\* ---- metadata trim and exit status
MaxTrimLines == 5

TrimLineKinds == { << >>, KanaA, HyphenLine }

\* files of blank, text and delimiter lines, two files with a line that is
\* not the delimiter by one hyphen, a file with a line too long for the
\* Scanner
TrimRuns ==
  { Run(1, TRUE, "plain", TRUE, LongLineFile) }
  \cup
  { Run(1, d, "plain", TRUE, FileOf(ls)) :
      d \in BOOLEAN, ls \in Files(TrimLineKinds, MaxTrimLines) }
  \cup { Run(1, FALSE, "plain", TRUE,
             FileOf(<<KanaA, h, KanaI, HyphenLine, KanaA, HyphenLine, KanaI>>)) :
           h \in { Tail(HyphenLine), HyphenLine \o <<HYPHEN>> } }

Init == \E r \in CommonRuns \cup TrimRuns : Start(r)

Spec == Init /\ [][Next]_vars

\* ---- glyph annotations
MaxJisPieces == 3

RECURSIVE Dec(_, _)
\* the w decimal digits of n
Dec(n, w) == IF w = 0 THEN << >> ELSE Dec(n \div 10, w - 1) \o << DIGIT0 + (n % 10) >>

\* the locator of a glyph code: U+7B2C d U+6C34 U+6E96 d-dd-dd
Locator(code) ==
  LET d == Dec(code, 6)
  IN  <<DAI, d[1], SUI, JUN, d[2], HYPHEN, d[3], d[4], HYPHEN, d[5], d[6]>>

Annotation(desc) == <<KOME, LBRACK, SHARP>> \o desc \o <<RBRACK>>

\* annotations of two codes of the table and of one not in it, an
\* annotation without locator, a locator outside any annotation, plain text
JisPieces ==
  { Annotation(KanaA \o Locator(311476)),
    Annotation(KanaI \o Locator(311524)),
    Annotation(KanaA \o Locator(310000)),
    Annotation(KanaKa),
    Locator(311476),
    KanaA }

JisRuns ==
  { Run(1, TRUE, "plain", TRUE, FileOf(<< l >>)) :
      l \in Concats(JisPieces, MaxJisPieces) }

InitJis == \E r \in CommonRuns \cup JisRuns : Start(r)

SpecJis == InitJis /\ [][Next]_vars

\* ---- accents
MaxAccentPieces == 3

\* U+3014, U+3015, "o", ":", "a", "e&", and the bracketed tokens o: and a:
AccentPieces ==
  { <<LKIKKO>>, <<RKIKKO>>, <<111>>, <<58>>, <<97>>, <<101, 38>>,
    <<LKIKKO, 111, 58, RKIKKO>>, <<LKIKKO, 97, 58, RKIKKO>> }

AccentRuns ==
  { Run(1, TRUE, "plain", TRUE, FileOf(<< l >>)) :
      l \in Concats(AccentPieces, MaxAccentPieces) }

InitAccent == \E r \in CommonRuns \cup AccentRuns : Start(r)

SpecAccent == InitAccent /\ [][Next]_vars

\* ---- whole lines
MaxLinePieces == 3

\* U+3000, kana, kanji, U+300A, "o", ":", a bracketed accent token, a ruby
LinePieces ==
  { <<FWSPACE>>, KanaA, Kan, <<LRUBY>>, <<111>>, <<58>>,
    <<LKIKKO, 111, 58, RKIKKO>>, Kan \o <<LRUBY>> \o KanaA \o <<RRUBY>> }

LineRuns ==
  { Run(1, TRUE, f, TRUE, FileOf(<< l >>)) :
      f \in {"plain"}, l \in Concats(LinePieces, MaxLinePieces) \ { << >> } }

InitLine == \E r \in CommonRuns \cup LineRuns : Start(r)

SpecLine == InitLine /\ [][Next]_vars

\* ---- headers
MaxHdrLines == 7

\* a heading line: U+FF3B U+FF03 kana U+FF3D title U+FF3B U+FF03 U+300C title
\* U+300D U+306F level U+898B U+51FA U+3057 U+FF3D
Heading(title, level) ==
  <<LBRACK, SHARP>> \o KanaA \o <<RBRACK>> \o title
    \o <<LBRACK, SHARP, LQUOTE>> \o title
    \o <<RQUOTE, HA, level, MI, DASHI, SHI, RBRACK>>

HdrLineKinds == { << >>, KanaA, Heading(KanaI, OOKII) }

HdrRuns ==
  { Run(1, TRUE, "md", TRUE, FileOf(ls)) :
      ls \in Files(HdrLineKinds, MaxHdrLines) }
  \cup { Run(1, TRUE, f, TRUE,
             FileOf(<< KanaA, Heading(KanaI, OOKII), << >>, << >>,
                       Heading(KanaI, NAKA), << >>, << >>,
                       Heading(KanaA, CHIISAI), << >>, KanaA >>)) :
           f \in {"plain", "md", "tex"} }

InitHdrs == \E r \in CommonRuns \cup HdrRuns : Start(r)

SpecHdrs == InitHdrs /\ [][Next]_vars

\* ---- formats
MaxFmtLines == 4

FmtLineKinds ==
  { << >>, Kan \o <<LRUBY>> \o KanaKa \o <<RRUBY>>, PageBreak,
    Heading(KanaI, OOKII) }

FmtRuns ==
  { Run(1, TRUE, f, TRUE, FileOf(ls)) :
      f \in {"html", "", "plain", "md"},
      ls \in Files(FmtLineKinds, MaxFmtLines) }

InitFmt == \E r \in CommonRuns \cup FmtRuns : Start(r)

SpecFmt == InitFmt /\ [][Next]_vars

\* ---- the ruby pass
MaxRubyPieces == 4

\* the emphasis annotation that quotes text
EmphasisOpen == <<LBRACK, SHARP, LQUOTE>>
Emphasis(text) == EmphasisOpen \o text \o <<RQUOTE, NI, BOU, TEN, RBRACK>>

\* kanji, kana, U+FF5C, U+300A, U+300B, a ruby, an emphasis annotation
RubyPieces ==
  { Kan, Ji, KanaA, <<BAR>>, <<LRUBY>>, <<RRUBY>>,
    Kan \o <<LRUBY>> \o KanaKa \o <<RRUBY>>,
    Emphasis(KanaA) }

\* a line with paired brackets whose emphasis annotation quotes the brackets
\* U+300B and U+300A, after the text it quotes:
\* kanji U+300A U+300B kana U+300A [#"U+300B kana U+300A"...] U+300B
QuotedBracketLine ==
  Kan \o <<LRUBY>> \o <<RRUBY>> \o KanaA \o <<LRUBY>>
    \o Emphasis(<<RRUBY>> \o KanaA \o <<LRUBY>>) \o <<RRUBY>>

\* a line without ruby brackets whose emphasis annotation A quotes the
\* opening of an annotation (kana, opening, kana):
\* A  kana ":" five U+FE45 "]"  kana opening kana  A  "[" kana closing
QuotedOpenerLine ==
  LET quoted == KanaA \o EmphasisOpen \o KanaA
  IN  Emphasis(quoted)
        \o KanaA \o <<58>> \o Repeat(<<SESAME>>, Len(quoted)) \o <<93>>
        \o quoted \o Emphasis(quoted)
        \o <<91>> \o KanaA \o <<RQUOTE, NI, BOU, TEN, RBRACK>>

RubyLines ==
  Concats(RubyPieces, MaxRubyPieces) \cup { QuotedBracketLine, QuotedOpenerLine }

InitRuby ==
  \E f \in {"plain", "md", "tex"}, l \in RubyLines :
    /\ Fresh(Run(1, TRUE, f, TRUE, << >>))
    /\ pc = "ruby"
    /\ rb = [fmt |-> f, str |-> l, passes |-> << >>]

SpecRuby == InitRuby /\ [][RubyNext]_vars

\* ============================================================ the properties
HasMatch(exp, s) == FindStringSubmatch(exp, s).b # 0

\* the number of places where t occurs in s
CountOcc(s, t) == Cardinality({ i \in 1..Len(s) : HasAt(s, t, i) })

KnownFormats == { "tex", "md", "plain" }

\* ---- C1
\* the delimiter occurs twice, one occurrence after the other: the document
\* splits into at least three segments
AtLeastThreeSegments(doc) ==
  LET d1 == IndexFrom(doc, Delim, 1)
  IN  d1 # 0 /\ IndexFrom(doc, Delim, d1 + Len(Delim)) # 0

\* the text before the first delimiter followed by the text between the
\* second delimiter and the third (or the end)
FirstAndThirdSegment(doc) ==
  LET d1 == IndexFrom(doc, Delim, 1)
      d2 == IndexFrom(doc, Delim, d1 + Len(Delim))
      d3 == IndexFrom(doc, Delim, d2 + Len(Delim))
  IN  Slice(doc, 1, d1 - 1)
        \o Slice(doc, d2 + Len(Delim), IF d3 = 0 THEN Len(doc) ELSE d3 - 1)

\* C1: a run with debug off over a document (the joined text after header and
\* page-break rewriting) that splits into at least three segments at the
\* delimiter outputs the first segment immediately followed by the third; a
\* run with debug on outputs the document untrimmed.
C1_MetadataTrim ==
  (pc = "exit" /\ cmd.flags = "ok" /\ cmd.nargs = 1 /\ fs.openable) =>
    /\ cmd.d => (status = 0 /\ stdout = stage.pb \o <<NL>>)
    /\ (~cmd.d /\ AtLeastThreeSegments(stage.pb)) =>
         (status = 0 /\ stdout = FirstAndThirdSegment(stage.pb) \o <<NL>>)

\* a run with debug off printed a document cut down to its first and third
\* segment, both non-empty
C1_Witness ==
  /\ pc = "exit" /\ ~cmd.d /\ status = 0
  /\ AtLeastThreeSegments(stage.pb)
  /\ IndexFrom(stage.pb, Delim, 1) > 1
  /\ Len(stdout) > IndexFrom(stage.pb, Delim, 1)
  /\ Len(stdout) < Len(stage.pb)

\* ---- C7
\* C7: standard output is written only by a run that ends with status 0, and
\* is then the whole document followed by one newline; a run with zero or
\* several arguments prints usage, exits 1 and opens no file; a run whose
\* file cannot be opened and a run with debug off over a document of fewer
\* than three segments end with a non-zero status; none of them writes to
\* standard output.
C7_ExitStatus ==
  /\ stdout # << >> => (pc = "exit" /\ status = 0 /\ stdout = out \o <<NL>>)
  /\ pc = "exit" =>
       /\ cmd.nargs # 1 =>
            (status = 1 /\ opens = 0 /\ stdout = << >>
               /\ stderr = << LogLine("usage") >>)
       /\ (cmd.nargs = 1 /\ ~fs.openable) => (status # 0 /\ stdout = << >>)
       /\ (cmd.nargs = 1 /\ fs.openable /\ ~cmd.d
             /\ ~AtLeastThreeSegments(stage.pb)) =>
            (status # 0 /\ stdout = << >>)

\* C7 amended: the three failures are those of the runs whose flags
\* flag.Parse accepts; a run that flag.Parse ends (an undefined flag, a flag
\* without its value, a bad value, -h) prints usage to standard error,
\* opens no file, writes nothing to standard output and exits with status
\* 2, or, for -h, with the status of the Go release, 0 or 2.
C7_ExitStatusFlagsParsed ==
  /\ stdout # << >> => (pc = "exit" /\ status = 0 /\ stdout = out \o <<NL>>)
  /\ (pc = "exit" /\ cmd.flags = "ok") =>
       /\ cmd.nargs # 1 =>
            (status = 1 /\ opens = 0 /\ stdout = << >>
               /\ stderr = << LogLine("usage") >>)
       /\ (cmd.nargs = 1 /\ ~fs.openable) => (status # 0 /\ stdout = << >>)
       /\ (cmd.nargs = 1 /\ fs.openable /\ ~cmd.d
             /\ ~AtLeastThreeSegments(stage.pb)) =>
            (status # 0 /\ stdout = << >>)
  /\ (pc = "exit" /\ cmd.flags # "ok") =>
       /\ opens = 0 /\ stdout = << >>
       /\ stderr[Len(stderr)] = LogLine("usage")
       /\ cmd.flags = "error" => status = 2
       /\ cmd.flags = "help" => status \in HelpStatus

\* a run with debug off read a file with one delimiter line and failed
C7_Witness ==
  /\ pc = "exit" /\ cmd.flags = "ok" /\ cmd.nargs = 1 /\ fs.openable
  /\ ~cmd.d
  /\ Contains(stage.pb, Delim)
  /\ ~AtLeastThreeSegments(stage.pb)
  /\ status = 2 /\ stdout = << >>

\* ---- C5
\* no glyph annotation, no ruby, no emphasis annotation, no bracketed accent
\* segment
NoMarkup(s) ==
  \A exp \in {"jis", "ruby", "bouten", "accent"} : ~HasMatch(exp, s)

\* t is core with U+3000 before and after it, and core neither starts nor
\* ends with U+3000
PaddingOf(t, core) ==
  /\ \E i, j \in 0..Len(t) :
       t = Repeat(<<FWSPACE>>, i) \o core \o Repeat(<<FWSPACE>>, j)
  /\ core # << >> => (core[1] # FWSPACE /\ core[Len(core)] # FWSPACE)

\* C5 as stated: a line without recognized markup leaves the per-line
\* processing of parse equal to the input line.
C5_Identity ==
  (lines # << >> /\ NoMarkup(line.text)) => line.accents = line.text

\* C5 amended: a line without recognized markup leaves the per-line
\* processing equal to the input line without its leading and trailing
\* ideographic spaces.
C5_IdentityUpToPadding ==
  (lines # << >> /\ NoMarkup(line.text)) => PaddingOf(line.text, line.accents)

\* a padded line without markup went through the passes
C5_Witness ==
  /\ lines # << >>
  /\ NoMarkup(line.text)
  /\ line.text[1] = FWSPACE
  /\ line.accents # << >>
  /\ Contains(line.accents, <<111, 58>>)

\* ---- C10
\* C10: for a format name outside {tex, md, plain} the descriptor is all
\* empty and every formatting operation leaves its text as it was.
C10_NoOp ==
  (cmd.f \notin KnownFormats /\ cmd.flags = "ok" /\ cmd.nargs = 1
     /\ pc # "main") =>
    /\ of = EmptyOutFmt
    /\ lines # << >> => line.ruby = line.jis
    /\ pc \in {"trim", "print", "exit"} =>
         (stage.hdrs = stage.joined /\ stage.pb = stage.hdrs)

\* ---- C3
\* the glyph of an annotation's own code, or the annotation itself
OwnGlyph(m, s) ==
  LET nums == FindStringSubmatch("locator", m.g1)
  IN  IF nums.b # 0 /\ Atoi(nums.g1) \in JisKeys
        THEN << JisMap(Atoi(nums.g1)) >>
        ELSE Slice(s, m.b, m.e)

RECURSIVE OwnCodeFrom(_, _)
OwnCodeFrom(s, pos) ==
  LET m == FindFrom("jis", s, pos)
  IN  IF m.b = 0 THEN Slice(s, pos, Len(s))
      ELSE Slice(s, pos, m.b - 1) \o OwnGlyph(m, s) \o OwnCodeFrom(s, m.e + 1)

\* the annotations of s whose own locator gives a code outside the table
UnmappedAnnotations(s) ==
  LET all == FindAllStringSubmatch("jis", s)
  IN  { k \in 1..Len(all) :
          LET nums == FindStringSubmatch("locator", all[k][1])
          IN  nums.b # 0 /\ Atoi(nums.g1) \notin JisKeys }

\* every glyph annotation of s carries a locator, and s has no locator
\* outside its annotations
AllLocated(s) ==
  LET all == FindAllStringSubmatch("jis", s)
  IN  /\ \A k \in 1..Len(all) : HasMatch("locator", all[k][1])
      /\ CountOcc(s, <<DAI>>) = Len(all)

\* C3: every glyph annotation of a line is resolved by the code of its own
\* locator: replaced by the glyph when the code is in the table, left
\* untouched with exactly one warning when it is not.  Stated for the lines
\* whose annotations all carry a locator.
C3_OwnCode ==
  (lines # << >> /\ AllLocated(line.trimmed)) =>
    /\ line.jis = OwnCodeFrom(line.trimmed, 1)
    /\ Len(SelectSeq(stderr, LAMBDA l : l.msg = "jis code not implemented"))
         = Cardinality(UnmappedAnnotations(line.trimmed))

\* ---- C9
\* C9: a glyph annotation whose description has no locator is left unchanged
\* in the output line, whatever else the line contains.
C9_SkipUnparseable ==
  lines # << >> =>
    LET all == FindAllStringSubmatch("jis", line.trimmed)
    IN  \A k \in 1..Len(all) :
          ~HasMatch("locator", all[k][1]) =>
            CountOcc(line.jis, all[k][0]) >= CountOcc(line.trimmed, all[k][0])

\* ---- C4
RECURSIVE UnbracketFrom(_, _)
\* every bracketed segment of s replaced by its inner text
UnbracketFrom(s, pos) ==
  LET m == FindFrom("accent", s, pos)
  IN  IF m.b = 0 THEN Slice(s, pos, Len(s))
      ELSE Slice(s, pos, m.b - 1) \o m.g1 \o UnbracketFrom(s, m.e + 1)

\* every accent token of s replaced by its character
Decoded(s) == ApplyKeys(s, CHOOSE ord \in Orders(KeysIn(s)) : TRUE)

\* C4: on a line with a bracketed segment the accent pass removes the
\* brackets and decodes every accent token of the line, with the same result
\* for every order of the table; a line without bracketed segment is
\* returned unchanged.
C4_Accents ==
  lines # << >> =>
    IF HasMatch("accent", line.ruby)
      THEN /\ replace_accents(line.ruby) = { Decoded(UnbracketFrom(line.ruby, 1)) }
           /\ line.accents = Decoded(UnbracketFrom(line.ruby, 1))
      ELSE line.accents = line.ruby

\* ---- C8
\* the template of a level word
LevelTemplate(level) ==
  CASE level = <<OOKII>>   -> of.hdr
    [] level = <<NAKA>>    -> of.shdr
    [] level = <<CHIISAI>> -> of.sshdr

\* C8: if the joined document has a structured heading block, each block is
\* replaced by the template of its level word filled with its title;
\* otherwise each line between triple newlines is replaced by the hdr
\* template filled with the line.  Stated on the counts: the rewritten
\* document holds each filled template at least as often as the document
\* holds blocks (or lines) that fill it so.
C8_Headers ==
  pc \in {"trim", "print", "exit"} =>
    LET doc == stage.joined
        At(exp) == { i \in 1..Len(doc) : MatchAt(exp, doc, i).b # 0 }
    IN  IF At("heading") # {}
          THEN \A i \in At("heading") :
                 LET m == HeadingAt(doc, i)
                 IN  CountOcc(stage.hdrs,
                              Sprintf(LevelTemplate(m.g2), << m.g1 >>) \o <<NL>>)
                       >= Cardinality({ j \in At("heading") :
                                          /\ HeadingAt(doc, j).g1 = m.g1
                                          /\ HeadingAt(doc, j).g2 = m.g2 })
          ELSE \A i \in At("blank") :
                 LET m == BlankLineAt(doc, i)
                 IN  CountOcc(stage.hdrs,
                              <<NL>> \o Sprintf(of.hdr, << m.g1 >>) \o <<NL>>)
                       >= Cardinality({ j \in At("blank") :
                                          BlankLineAt(doc, j).g1 = m.g1 })

\* ---- C2
RECURSIVE RubyInPlaceFrom(_, _, _)
\* every ruby match of s replaced where it stands by the ruby template
\* filled with its own base and reading
RubyInPlaceFrom(s, pos, fmt) ==
  LET m == FindFrom("ruby", s, pos)
  IN  IF m.b = 0 THEN Slice(s, pos, Len(s))
      ELSE Slice(s, pos, m.b - 1) \o Sprintf(fmt.ruby, << m.g1, m.g2 >>)
             \o RubyInPlaceFrom(s, m.e + 1, fmt)

\* C2: for plain, md and tex the ruby loop returns the line with every ruby
\* match replaced in place by the template filled with that match's base and
\* reading, and nothing else changed.
C2_RubyInPlace ==
  rb.passes # << >> =>
    rb.passes[1].ruby = RubyInPlaceFrom(rb.str, 1, get_outfmt(rb.fmt))

\* ---- C6
\* the brackets U+300A and U+300B of s come in pairs, one after the other
Paired(s) ==
  LET br == SelectSeq(s, LAMBDA c : c \in {LRUBY, RRUBY})
  IN  /\ Len(br) % 2 = 0
      /\ \A k \in 1..Len(br) : br[k] = IF k % 2 = 1 THEN LRUBY ELSE RRUBY

\* C6 as stated: for plain, md and tex and every line, replace_ruby applied
\* to its own output returns that output.
C6_Idempotent ==
  Len(rb.passes) >= 2 => rb.passes[2].out = rb.passes[1].out

\* every emphasis annotation of s quotes text without U+300A, U+300B and
\* without the opening of an annotation
PlainQuotes(s) ==
  LET all == FindAllStringSubmatch("bouten", s)
  IN  \A k \in 1..Len(all) :
        /\ \A i \in 1..Len(all[k][1]) : all[k][1][i] \notin {LRUBY, RRUBY}
        /\ ~Contains(all[k][1], EmphasisOpen)

\* C6 amended: for plain, md and tex and every line whose ruby brackets are
\* paired without nesting (each U+300A closed by a U+300B before the next
\* U+300A, no bracket left alone) and whose emphasis annotations quote text
\* without U+300A, U+300B and without the opening of an annotation,
\* replace_ruby applied to its own output returns that output.
C6_IdempotentPaired ==
  (Len(rb.passes) >= 2 /\ Paired(rb.str) /\ PlainQuotes(rb.str)) =>
    rb.passes[2].out = rb.passes[1].out

\* The two conditions on the quoted text are needed.  With paired brackets
\* alone the second application rewrites QuotedBracketLine (plain: the
\* emphasis loop removes the quoted U+300B and leaves kanji U+300A "["
\* ... U+300B, a ruby match) and QuotedOpenerLine (plain: the first
\* application frees the quoted opening, which the second application
\* matches together with the text before it).
C6_PairedAlone ==
  (Len(rb.passes) >= 2 /\ Paired(rb.str)) =>
    rb.passes[2].out = rb.passes[1].out

\* With paired brackets and no quoted bracket, but quoted openings allowed,
\* the second application still rewrites QuotedOpenerLine.
C6_PairedNoQuotedBracket ==
  (Len(rb.passes) >= 2 /\ Paired(rb.str)
     /\ \A i \in 1..Len(rb.str) :
          LET m == BoutenAt(rb.str, i)
          IN  m.b # 0 => \A j \in 1..Len(m.g1) : m.g1[j] \notin {LRUBY, RRUBY}) =>
    rb.passes[2].out = rb.passes[1].out

\* replace_ruby ran twice on a line with paired brackets; the first run
\* rewrote a ruby and an emphasis annotation to md, whose template holds
\* the brackets
C6_Witness ==
  /\ Len(rb.passes) >= 2
  /\ Paired(rb.str)
  /\ PlainQuotes(rb.str)
  /\ rb.fmt = "md"
  /\ HasMatch("ruby", rb.str)
  /\ Contains(rb.str, KanaA \o Emphasis(KanaA))
  /\ ~HasMatch("ruby", rb.passes[1].out)
  /\ ~HasMatch("bouten", rb.passes[1].out)

=============================================================================
